---- MODULE Spec2Model ----
(***************************************************************************)
(* A model of the express-forms-and-data application: the in-memory        *)
(* usersStorage, the express-validator chain validateUser, the handlers of *)
(* usersController and the routes of usersRouter.                          *)
(*                                                                         *)
(* JavaScript strings are sequences of one-character strings, so that      *)
(* trim, toLowerCase, includes, isAlpha, isLength and parseInt do real     *)
(* work.  A JavaScript value is a record carrying its type, so that the    *)
(* number 0 and the string "0" are different values with the same          *)
(* property key.                                                           *)
(***************************************************************************)
EXTENDS Integers, Sequences, FiniteSets, TLC

(***************************************************************************)
(* Bounds of the model.                                                    *)
(***************************************************************************)
\* addUser is called at most MaxUsers times (the counter this.id is unbounded).
MaxUsers == 2

(***************************************************************************)
(* JavaScript values.                                                      *)
(***************************************************************************)
Undefined == [type |-> "undefined", num |-> 0, str |-> <<>>]
NaN       == [type |-> "NaN", num |-> 0, str |-> <<>>]
Num(n)    == [type |-> "number", num |-> n, str |-> <<>>]
Str(s)    == [type |-> "string", num |-> 0, str |-> s]

UpperCase == << "A", "B", "C", "D", "E", "F", "G", "H", "I", "J", "K", "L", "M",
                "N", "O", "P", "Q", "R", "S", "T", "U", "V", "W", "X", "Y", "Z" >>
LowerCase == << "a", "b", "c", "d", "e", "f", "g", "h", "i", "j", "k", "l", "m",
                "n", "o", "p", "q", "r", "s", "t", "u", "v", "w", "x", "y", "z" >>
Digits    == << "0", "1", "2", "3", "4", "5", "6", "7", "8", "9" >>

Range(f) == { f[i] : i \in DOMAIN f }

UpperCaseLetters == Range(UpperCase)
DigitChars       == Range(Digits)
Letters    == UpperCaseLetters \cup Range(LowerCase)
Whitespace == { " " }

\* The digit character c as a number.
DigitValue(c) == (CHOOSE i \in DOMAIN Digits : Digits[i] = c) - 1

\* String.prototype.toLowerCase
toLowerCase(s) ==
    [ i \in DOMAIN s |->
        IF s[i] \in UpperCaseLetters
        THEN LowerCase[CHOOSE k \in DOMAIN UpperCase : UpperCase[k] = s[i]]
        ELSE s[i] ]

\* String.prototype.includes
includes(s, t) ==
    \E i \in 0 .. (Len(s) - Len(t)) : SubSeq(s, i + 1, i + Len(t)) = t

RECURSIVE ltrim(_)
ltrim(s) == IF s # <<>> /\ Head(s) \in Whitespace THEN ltrim(Tail(s)) ELSE s

RECURSIVE rtrim(_)
rtrim(s) ==
    IF s # <<>> /\ s[Len(s)] \in Whitespace
    THEN rtrim(SubSeq(s, 1, Len(s) - 1))
    ELSE s

\* A trim that strips the leading whitespace only.
trimLeftOnly(s) == ltrim(s)

\* The sanitizer trim() and String.prototype.trim
trim(s) == rtrim(ltrim(s))

\* The decimal digits of the natural number n: the property key of a number.
RECURSIVE NumberToString(_)
NumberToString(n) ==
    IF n < 10 THEN << Digits[n + 1] >>
    ELSE NumberToString(n \div 10) \o << Digits[(n % 10) + 1] >>

\* The value of a sequence of digit characters.
RECURSIVE DigitsToNumber(_)
DigitsToNumber(s) ==
    IF s = <<>> THEN 0
    ELSE 10 * DigitsToNumber(SubSeq(s, 1, Len(s) - 1)) + DigitValue(s[Len(s)])

\* The longest prefix of s made of digits.
RECURSIVE DigitPrefix(_)
DigitPrefix(s) ==
    IF s # <<>> /\ Head(s) \in DigitChars
    THEN << Head(s) >> \o DigitPrefix(Tail(s))
    ELSE <<>>

\* parseInt(s, 10) of a string without a sign: the leading digits, NaN without any.
parseInt(s) ==
    LET t == ltrim(s)
        d == DigitPrefix(t)
    IN  IF d = <<>> THEN NaN ELSE Num(DigitsToNumber(d))

\* The string express-validator hands to a validator or sanitizer (toString).
toString(v) ==
    CASE v.type = "string"    -> v.str
      [] v.type = "number"    -> NumberToString(v.num)
      [] v.type = "NaN"       -> << "N", "a", "N" >>
      [] v.type = "undefined" -> <<>>

\* The property key under which a JavaScript object files the value v.
ToPropertyKey(v) ==
    CASE v.type = "string"    -> v.str
      [] v.type = "number"    -> NumberToString(v.num)
      [] v.type = "NaN"       -> << "N", "a", "N" >>
      [] v.type = "undefined" ->
            << "u", "n", "d", "e", "f", "i", "n", "e", "d" >>

(***************************************************************************)
(* validator.js validators, as the chains of validateUser use them.        *)
(***************************************************************************)
MinNameLength == 1
MaxNameLength == 10
MinAge        == 18
MaxAge        == 200
MaxBioLength  == 200

FirstNameAlphaErr  == "First name must only contain letters."
FirstNameLengthErr == "First name must be between 1 and 10 characters."
LastNameAlphaErr   == "Last name must only contain letters."
LastNameLengthErr  == "Last name must be between 1 and 10 characters."
EmailErrMsg        == "Email Must be an email"
AgeErrMsg          == "Age Must be a number between 18 and 200"
BioErrMsg          == "Bio Must be below 200 characters"

\* isAlpha: /^[A-Z]+$/i
isAlpha(s) == s # <<>> /\ \A i \in DOMAIN s : s[i] \in Letters

\* An isLength that lets one character too many through.
isLengthOffByOne(s, min, max) == Len(s) >= min /\ Len(s) <= max + 1

\* isLength({ min, max })
isLength(s, min, max) == Len(s) >= min /\ Len(s) <= max

\* isInt({ min, max }): /^(?:[-+]?(?:0|[1-9][0-9]*))$/ and the range, on a
\* string without a sign.
isInt(s, min, max) ==
    /\ s # <<>>
    /\ \A i \in DOMAIN s : s[i] \in DigitChars
    /\ (Len(s) > 1 => s[1] # "0")
    /\ DigitsToNumber(s) >= min
    /\ DigitsToNumber(s) <= max

\* The pieces of s between the occurrences of the character c.
RECURSIVE Split(_, _)
Split(s, c) ==
    IF \E i \in DOMAIN s : s[i] = c
    THEN LET k == CHOOSE i \in DOMAIN s :
                      s[i] = c /\ \A j \in 1 .. (i - 1) : s[j] # c
         IN  << SubSeq(s, 1, k - 1) >> \o Split(SubSeq(s, k + 1, Len(s)), c)
    ELSE << s >>

\* isEmail with its default options, on addresses of letters, digits, "." and
\* "@": user@domain, the user part dot-separated non-empty atoms, the domain a
\* fully qualified name whose top-level part has two letters or more.
isEmail(s) ==
    LET parts  == Split(s, "@")
        user   == parts[1]
        domain == parts[2]
        atoms  == Split(user, ".")
        labels == Split(domain, ".")
        alnum  == Letters \cup DigitChars
    IN  /\ Len(parts) = 2
        /\ \A i \in DOMAIN atoms :
              atoms[i] # <<>> /\ \A j \in DOMAIN atoms[i] : atoms[i][j] \in alnum
        /\ Len(labels) >= 2
        /\ \A i \in DOMAIN labels :
              labels[i] # <<>> /\ \A j \in DOMAIN labels[i] : labels[i][j] \in alnum
        /\ Len(labels[Len(labels)]) >= 2
        /\ \A j \in DOMAIN labels[Len(labels)] : labels[Len(labels)][j] \in Letters

\* The messages of the list that are raised (in the order of the chain).
Raised(checks) == SelectSeq(checks, LAMBDA c : ~c.ok)
Messages(checks) == [ i \in DOMAIN checks |-> checks[i].msg ]

(***************************************************************************)
(* validateUser: the five chains run over req.body.  Sanitizers (trim,     *)
(* toInt) write the new value back into req.body; every validator of a     *)
(* chain runs (no bail) and a failing one adds its message; optional()     *)
(* skips the chain of a field that is undefined.                           *)
(***************************************************************************)
\* A first-name chain that stops at its first failing validator.
validateFirstNameBail(body) ==
    LET v == trim(toString(body.firstName))
    IN  [ value  |-> Str(v),
          errors |-> IF ~isAlpha(v) THEN << FirstNameAlphaErr >>
                     ELSE IF ~isLength(v, MinNameLength, MaxNameLength)
                     THEN << FirstNameLengthErr >>
                     ELSE <<>> ]

validateFirstName(body) ==
    LET v == trim(toString(body.firstName))
    IN  [ value  |-> Str(v),
          errors |-> Messages(Raised(<<
              [ok |-> isAlpha(v), msg |-> FirstNameAlphaErr],
              [ok |-> isLength(v, MinNameLength, MaxNameLength),
               msg |-> FirstNameLengthErr] >>)) ]

validateLastName(body) ==
    LET v == trim(toString(body.lastName))
    IN  [ value  |-> Str(v),
          errors |-> Messages(Raised(<<
              [ok |-> isAlpha(v), msg |-> LastNameAlphaErr],
              [ok |-> isLength(v, MinNameLength, MaxNameLength),
               msg |-> LastNameLengthErr] >>)) ]

validateEmail(body) ==
    LET v == trim(toString(body.email))
    IN  [ value  |-> Str(v),
          errors |-> Messages(Raised(<<
              [ok |-> isEmail(v), msg |-> EmailErrMsg] >>)) ]

\* An age chain whose isInt() has no range.
validateAgeNoRange(body) ==
    IF body.age = Undefined
    THEN [ value |-> Undefined, errors |-> <<>> ]
    ELSE LET v == parseInt(trim(toString(body.age)))
         IN  [ value  |-> v,
               errors |-> Messages(Raised(<<
                   [ok |-> isInt(toString(v), 0, MaxAge * MaxAge),
                    msg |-> AgeErrMsg] >>)) ]

validateAge(body) ==
    IF body.age = Undefined
    THEN [ value |-> Undefined, errors |-> <<>> ]
    ELSE LET v == parseInt(trim(toString(body.age)))
         IN  [ value  |-> v,
               errors |-> Messages(Raised(<<
                   [ok |-> isInt(toString(v), MinAge, MaxAge),
                    msg |-> AgeErrMsg] >>)) ]

\* A bio chain without its trim().
validateBioNoTrim(body) ==
    IF body.bio = Undefined
    THEN [ value |-> Undefined, errors |-> <<>> ]
    ELSE LET v == toString(body.bio)
         IN  [ value  |-> Str(v),
               errors |-> Messages(Raised(<<
                   [ok |-> isLength(v, 0, MaxBioLength), msg |-> BioErrMsg] >>)) ]

validateBio(body) ==
    IF body.bio = Undefined
    THEN [ value |-> Undefined, errors |-> <<>> ]
    ELSE LET v == trim(toString(body.bio))
         IN  [ value  |-> Str(v),
               errors |-> Messages(Raised(<<
                   [ok |-> isLength(v, 0, MaxBioLength), msg |-> BioErrMsg] >>)) ]

\* req.body after the chains have run, and validationResult(req).array().
validateUser(body) ==
    [ body   |-> [ firstName |-> validateFirstName(body).value,
                   lastName  |-> validateLastName(body).value,
                   email     |-> validateEmail(body).value,
                   age       |-> validateAge(body).value,
                   bio       |-> validateBio(body).value ],
      errors |-> validateFirstName(body).errors \o validateLastName(body).errors
                 \o validateEmail(body).errors \o validateAge(body).errors
                 \o validateBio(body).errors ]

(***************************************************************************)
(* usersStorage: this.storage is an object (property keys are strings),    *)
(* this.id the counter.  `this` is the record [storage, id].               *)
(***************************************************************************)
\* obj[key] = value
SetProperty(obj, key, value) ==
    [ k \in DOMAIN obj \cup {key} |-> IF k = key THEN value ELSE obj[k] ]

\* delete obj[key]
DeleteProperty(obj, key) == [ k \in DOMAIN obj \ {key} |-> obj[k] ]

\* An addUser that forgets this.id++.
addUserNoIncrement(this, user) ==
    [ storage |-> SetProperty(this.storage, ToPropertyKey(Num(this.id)),
                      [ id |-> Num(this.id), firstName |-> user.firstName,
                        lastName |-> user.lastName, email |-> user.email,
                        age |-> user.age, bio |-> user.bio ]),
      id |-> this.id ]

addUser(this, user) ==
    [ storage |-> SetProperty(this.storage, ToPropertyKey(Num(this.id)),
                      [ id |-> Num(this.id), firstName |-> user.firstName,
                        lastName |-> user.lastName, email |-> user.email,
                        age |-> user.age, bio |-> user.bio ]),
      id |-> this.id + 1 ]

\* The keys of an object in the order Object.values walks them: the keys of
\* the model are all array indices, which come in ascending numeric order.
RECURSIVE OwnKeys(_)
OwnKeys(keys) ==
    IF keys = {} THEN <<>>
    ELSE LET k == CHOOSE x \in keys :
                      \A y \in keys : DigitsToNumber(x) <= DigitsToNumber(y)
         IN  << k >> \o OwnKeys(keys \ {k})

\* Object.values(this.storage)
getUsers(this) ==
    LET keys == OwnKeys(DOMAIN this.storage)
    IN  [ i \in DOMAIN keys |-> this.storage[keys[i]] ]

\* this.storage[id]: << >> stands for undefined, << u >> for the record u.
getUser(this, uid) ==
    IF ToPropertyKey(uid) \in DOMAIN this.storage
    THEN << this.storage[ToPropertyKey(uid)] >>
    ELSE <<>>

\* An updateUser that keeps the old value of a field the new data leaves out.
updateUserMerge(this, uid, user) ==
    LET old == IF ToPropertyKey(uid) \in DOMAIN this.storage
               THEN this.storage[ToPropertyKey(uid)]
               ELSE [ id |-> uid, firstName |-> Undefined, lastName |-> Undefined,
                      email |-> Undefined, age |-> Undefined, bio |-> Undefined ]
        pick(new, was) == IF new = Undefined THEN was ELSE new
    IN  [ storage |-> SetProperty(this.storage, ToPropertyKey(uid),
                          [ id |-> uid,
                            firstName |-> pick(user.firstName, old.firstName),
                            lastName |-> pick(user.lastName, old.lastName),
                            email |-> pick(user.email, old.email),
                            age |-> pick(user.age, old.age),
                            bio |-> pick(user.bio, old.bio) ]),
          id |-> this.id ]

updateUser(this, uid, user) ==
    [ storage |-> SetProperty(this.storage, ToPropertyKey(uid),
                      [ id |-> uid, firstName |-> user.firstName,
                        lastName |-> user.lastName, email |-> user.email,
                        age |-> user.age, bio |-> user.bio ]),
      id |-> this.id ]

\* A deleteUser that removes nothing.
deleteUserNothing(this, uid) == this

deleteUser(this, uid) ==
    [ storage |-> DeleteProperty(this.storage, ToPropertyKey(uid)),
      id |-> this.id ]

(***************************************************************************)
(* The requests of the model.  A form field arrives as a string or is      *)
(* left out (undefined); req.params.id and req.query.name are strings.     *)
(***************************************************************************)
Anna        == << "A", "n", "n", "a" >>
Bob         == << "B", "o", "b" >>
PaddedBob   == << " ", " " >> \o Bob \o << " ", " " >>
Bob1        == Bob \o << "1" >>
ElevenChars == << "A", "b", "c", "d", "e", "f", "g", "h", "i", "j", "k" >>
Lee         == << "L", "e", "e" >>
L3e         == << "L", "3", "e" >>
PaddedEmail == << " ", "a", "@", "b", ".", "c", "o", " " >>
NoAtEmail   == << "a", "b", ".", "c", "o" >>
PaddedAge   == << " ", "2", "5" >>
Underage    == << "1", "7" >>
AgeThenText == << "2", "5", "x" >>
PaddedBio   == << " ", "h", "i", " " >>
LongBio     == [ i \in 1 .. (MaxBioLength + 1) |-> "x" ]

\* The values a form usually sends, and the unusual ones.
UsualFirstNames == { Str(Anna), Str(PaddedBob) }
OtherFirstNames == { Str(<<>>), Str(Bob1), Str(ElevenChars) }
UsualLastNames  == { Str(Lee) }
OtherLastNames  == { Str(<<>>), Str(L3e), Str(ElevenChars) }
UsualEmails     == { Str(PaddedEmail) }
OtherEmails     == { Str(NoAtEmail) }
UsualAges       == { Str(PaddedAge) }
OtherAges       == { Undefined, Str(Underage), Str(AgeThenText) }
UsualBios       == { Str(PaddedBio) }
OtherBios       == { Undefined, Str(LongBio) }

UsualBodies ==
    [ firstName : UsualFirstNames, lastName : UsualLastNames,
      email : UsualEmails, age : UsualAges, bio : UsualBios ]

PlainBody ==
    [ firstName |-> Str(Anna), lastName |-> Str(Lee), email |-> Str(PaddedEmail),
      age |-> Str(PaddedAge), bio |-> Str(PaddedBio) ]

\* A form that breaks a rule in every field.
WrongEverywhere ==
    [ firstName |-> Str(Bob1), lastName |-> Str(<<>>), email |-> Str(NoAtEmail),
      age |-> Str(Underage), bio |-> Str(LongBio) ]

\* The submitted forms: the usual ones, the plain form with one field changed
\* to an unusual value, and the form that is wrong everywhere.
Bodies ==
    UsualBodies
    \cup { [PlainBody EXCEPT !.firstName = v] : v \in OtherFirstNames }
    \cup { [PlainBody EXCEPT !.lastName = v] : v \in OtherLastNames }
    \cup { [PlainBody EXCEPT !.email = v] : v \in OtherEmails }
    \cup { [PlainBody EXCEPT !.age = v] : v \in OtherAges }
    \cup { [PlainBody EXCEPT !.bio = v] : v \in OtherBios }
    \cup { WrongEverywhere }

\* validateUser on every form of the model, computed once.
ValidatedBodies == { << body, validateUser(body) >> : body \in Bodies }
Validated(body) == (CHOOSE v \in ValidatedBodies : v[1] = body)[2]

NoBody ==
    [ firstName |-> Undefined, lastName |-> Undefined, email |-> Undefined,
      age |-> Undefined, bio |-> Undefined ]

\* req.params.id of /:id/update and /:id/delete
PathIds == { Str(<< "0" >>), Str(<< "1" >>) }

\* req.query.name of /search (undefined when the parameter is left out)
Queries ==
    { Str(<< " ", "A", "N", " " >>), Str(<< "z", "z" >>),
      Str(<< "L", "E", "E" >>), Str(<<>>), Undefined }

(***************************************************************************)
(* State.                                                                  *)
(***************************************************************************)
VARIABLES
    storage,    \* usersStorage.storage: property key -> user record
    id,         \* usersStorage.id: the next id addUser assigns
    request,    \* the request handled last
    response,   \* the answer to it
    issued,     \* history: the ids addUser has assigned, in order
    deleted,    \* history: the keys deleteUser has removed a record from
    pending     \* the requests received and not yet answered

vars == << storage, id, request, response, issued, deleted, pending >>

usersStorage == [ storage |-> storage, id |-> id ]

Request(route, uid, body, name) ==
    [ route |-> route, id |-> uid, body |-> body, name |-> name ]

\* res.status(status).render(view, { errors, users, user, message })
Render(status, view, errors, users, user, message) ==
    [ status |-> status, kind |-> "render", target |-> view, errors |-> errors,
      users |-> users, user |-> user, message |-> message ]

\* res.redirect(location)
Redirect(location) ==
    [ status |-> 302, kind |-> "redirect", target |-> location, errors |-> <<>>,
      users |-> <<>>, user |-> <<>>, message |-> "" ]

\* What Express answers when no handler ends the request (404) or when a
\* handler throws (500).
Unhandled(status) ==
    [ status |-> status, kind |-> "error", target |-> "", errors |-> <<>>,
      users |-> <<>>, user |-> <<>>, message |-> "" ]

NoResponse ==
    [ status |-> 0, kind |-> "none", target |-> "", errors |-> <<>>,
      users |-> <<>>, user |-> <<>>, message |-> "" ]

Init ==
    /\ storage = [ k \in {} |-> Undefined ]
    /\ id = 0
    /\ request = Request("", Undefined, NoBody, Undefined)
    /\ response = NoResponse
    /\ issued = << >>
    /\ deleted = {}
    /\ pending = {}

(***************************************************************************)
(* usersController: one action per exported handler.  The handlers of a    *)
(* POST form run validateUser first.                                       *)
(***************************************************************************)
usersListGet ==
    /\ request' = Request("GET /", Undefined, NoBody, Undefined)
    /\ response' = Render(200, "index", <<>>, getUsers(usersStorage), <<>>, "")
    /\ UNCHANGED << storage, id, issued, deleted >>

usersCreateGet ==
    /\ request' = Request("GET /create", Undefined, NoBody, Undefined)
    /\ response' = Render(200, "createUser", <<>>, <<>>, <<>>, "")
    /\ UNCHANGED << storage, id, issued, deleted >>

usersCreatePost(body) ==
    LET req    == Validated(body)
        errors == req.errors
    IN  /\ request' = Request("POST /create", Undefined, body, Undefined)
        /\ IF errors # <<>>
           THEN /\ response' = Render(400, "createUser", errors, <<>>, <<>>, "")
                /\ UNCHANGED << storage, id, issued, deleted >>
           ELSE /\ id < MaxUsers
                /\ storage' = addUser(usersStorage, req.body).storage
                /\ id' = addUser(usersStorage, req.body).id
                /\ issued' = Append(issued, id)
                /\ response' = Redirect("/")
                /\ UNCHANGED deleted

usersUpdateGet(uid) ==
    /\ request' = Request("GET /:id/update", uid, NoBody, Undefined)
    /\ response' = Render(200, "updateUser", <<>>, <<>>,
                          getUser(usersStorage, uid), "")
    /\ UNCHANGED << storage, id, issued, deleted >>

usersUpdatePost(uid, body) ==
    LET req    == Validated(body)
        user   == getUser(usersStorage, uid)
        errors == req.errors
    IN  /\ request' = Request("POST /:id/update", uid, body, Undefined)
        /\ IF errors # <<>>
           THEN /\ response' = Render(400, "updateUser", errors, <<>>, user, "")
                /\ UNCHANGED << storage, id, issued, deleted >>
           ELSE /\ storage' = updateUser(usersStorage, uid, req.body).storage
                /\ id' = updateUser(usersStorage, uid, req.body).id
                /\ response' = Redirect("/")
                /\ UNCHANGED << issued, deleted >>

\* The filter callback of userSearchGet: || evaluates user.lastName only when
\* the first name does not contain the term.
Matches(user, searchTerm) ==
    \/ includes(toLowerCase(user.firstName.str), searchTerm)
    \/ includes(toLowerCase(user.lastName.str), searchTerm)

\* A search that compares the names as they are stored.
SearchResultsCaseSensitive(users, searchTerm) ==
    SelectSeq(users, LAMBDA user : \/ includes(user.firstName.str, searchTerm)
                                   \/ includes(user.lastName.str, searchTerm))

\* users.filter(...)
SearchResults(users, searchTerm) ==
    SelectSeq(users, LAMBDA user : Matches(user, searchTerm))

\* The callback throws a TypeError on a name that is undefined.
SearchThrows(users, searchTerm) ==
    \E i \in DOMAIN users :
        \/ users[i].firstName.type # "string"
        \/ /\ ~includes(toLowerCase(users[i].firstName.str), searchTerm)
           /\ users[i].lastName.type # "string"

userSearchGet(name) ==
    /\ request' = Request("GET /search", Undefined, NoBody, name)
    /\ UNCHANGED << storage, id, issued, deleted >>
    /\ IF name.type # "string"
       THEN response' = Unhandled(500)
       ELSE LET searchTerm == toLowerCase(trim(name.str))
                users      == getUsers(usersStorage)
                results    == SearchResults(users, searchTerm)
            IN  IF SearchThrows(users, searchTerm)
                THEN response' = Unhandled(500)
                ELSE IF Len(results) > 0
                THEN response' =
                         Render(200, "searchResults", <<>>, results, <<>>, "")
                ELSE response' =
                         Render(404, "searchResults", <<>>, <<>>, <<>>,
                                "404 - No users found.")

userDeletePost(uid) ==
    /\ request' = Request("POST /:id/delete", uid, NoBody, Undefined)
    /\ storage' = deleteUser(usersStorage, uid).storage
    /\ id' = deleteUser(usersStorage, uid).id
    /\ deleted' = deleted \cup (DOMAIN storage \ DOMAIN storage')
    /\ response' = Redirect("/")
    /\ UNCHANGED issued

(***************************************************************************)
(* usersRouter: the routes and the handler each one dispatches to.         *)
(***************************************************************************)
GetList ==
    /\ usersListGet
    /\ UNCHANGED pending

GetCreate ==
    /\ usersCreateGet
    /\ UNCHANGED pending

PostCreate ==
    /\ \E body \in Bodies : usersCreatePost(body)
    /\ UNCHANGED pending

GetUpdate ==
    /\ \E uid \in PathIds : usersUpdateGet(uid)
    /\ UNCHANGED pending

PostUpdate ==
    /\ \E uid \in PathIds, body \in Bodies : usersUpdatePost(uid, body)
    /\ UNCHANGED pending

\* usersRouter.post('/:id/delete') names no handler: the route matches and
\* passes the request on, and no later route ends it.
PostDelete ==
    \E uid \in PathIds :
        /\ request' = Request("POST /:id/delete", uid, NoBody, Undefined)
        /\ response' = Unhandled(404)
        /\ UNCHANGED << storage, id, issued, deleted, pending >>

GetSearch ==
    /\ \E name \in Queries : userSearchGet(name)
    /\ UNCHANGED pending

\* The application: requests through usersRouter.
Next ==
    \/ GetList
    \/ GetCreate
    \/ PostCreate
    \/ GetUpdate
    \/ PostUpdate
    \/ PostDelete
    \/ GetSearch

Spec == Init /\ [][Next]_vars

(***************************************************************************)
(* The controller on its own: every exported handler called with any       *)
(* request, userDeletePost included.                                       *)
(***************************************************************************)
CallListGet ==
    /\ usersListGet
    /\ UNCHANGED pending

CallCreateGet ==
    /\ usersCreateGet
    /\ UNCHANGED pending

CallCreatePost ==
    /\ \E body \in Bodies : usersCreatePost(body)
    /\ UNCHANGED pending

CallUpdateGet ==
    /\ \E uid \in PathIds : usersUpdateGet(uid)
    /\ UNCHANGED pending

CallUpdatePost ==
    /\ \E uid \in PathIds, body \in Bodies : usersUpdatePost(uid, body)
    /\ UNCHANGED pending

CallDeletePost ==
    /\ \E uid \in PathIds : userDeletePost(uid)
    /\ UNCHANGED pending

CallSearchGet ==
    /\ \E name \in Queries : userSearchGet(name)
    /\ UNCHANGED pending

NextHandlers ==
    \/ CallListGet
    \/ CallCreateGet
    \/ CallCreatePost
    \/ CallUpdateGet
    \/ CallUpdatePost
    \/ CallDeletePost
    \/ CallSearchGet

SpecHandlers == Init /\ [][NextHandlers]_vars

(***************************************************************************)
(* Concurrent requests.  Node runs one callback at a time: a request is    *)
(* received, its validateUser middleware runs over req only, and its       *)
(* handler function (req, res) then runs to completion in one step.        *)
(* Steps of different requests interleave freely between these points      *)
(* (more freely than the event loop lets them).                            *)
(***************************************************************************)
\* At most MaxInFlight requests are in flight at a time.
MaxInFlight == 2

\* The forms of the concurrent requests: two that pass, one that fails.
ConcurrentBodies ==
    { [PlainBody EXCEPT !.firstName = Str(PaddedBob)],
      [PlainBody EXCEPT !.bio = Undefined],
      [PlainBody EXCEPT !.email = Str(NoAtEmail)] }

\* The concurrent update submissions are all for the same id.
ConcurrentIds == { Str(<< "0" >>) }

\* The requests that can arrive: POST /create and POST /:id/update.
Arrivals ==
    { Request("POST /create", Undefined, body, Undefined) :
          body \in ConcurrentBodies }
    \cup { Request("POST /:id/update", uid, body, Undefined) :
               uid \in ConcurrentIds, body \in ConcurrentBodies }

FreeSlots == (1 .. MaxInFlight) \ { p.slot : p \in pending }

\* A request arrives and waits for its middleware.
Receive ==
    /\ FreeSlots # {}
    /\ \E req \in Arrivals :
          pending' = pending \cup
              { [ slot |-> CHOOSE n \in FreeSlots : \A k \in FreeSlots : n <= k,
                  req |-> req, stage |-> "received" ] }
    /\ UNCHANGED << storage, id, request, response, issued, deleted >>

\* The validateUser middleware of a request runs: it reads and writes req only.
RunValidation ==
    \E p \in pending :
        /\ p.stage = "received"
        /\ pending' = (pending \ {p}) \cup { [p EXCEPT !.stage = "validated"] }
        /\ UNCHANGED << storage, id, request, response, issued, deleted >>

\* The handler function of a validated request runs to completion.
RunHandler ==
    \E p \in pending :
        /\ p.stage = "validated"
        /\ IF p.req.route = "POST /create"
           THEN usersCreatePost(p.req.body)
           ELSE usersUpdatePost(p.req.id, p.req.body)
        /\ pending' = pending \ {p}

NextConcurrent ==
    \/ Receive
    \/ RunValidation
    \/ RunHandler

SpecConcurrent == Init /\ [][NextConcurrent]_vars

(***************************************************************************)
(* Properties.                                                             *)
(***************************************************************************)
PostRoutes == { "POST /create", "POST /:id/update" }

\* The record addUser or updateUser files under the id uid from the fields.
UserRecord(uid, fields) ==
    [ id |-> uid, firstName |-> fields.firstName, lastName |-> fields.lastName,
      email |-> fields.email, age |-> fields.age, bio |-> fields.bio ]

\* The form passes validation.
Passes(body) == Validated(body).errors = <<>>

\* The id the last call of addUser assigned.
LastIssued == issued[Len(issued)]

\* C1: a create submission that passes validation is answered by the redirect
\* to the list; the id of the new record is strictly greater than every id
\* addUser assigned before, getUser of that id returns the record made of the
\* validated fields, and the record is in getUsers().
C1_CreateAddsRetrievableRecord ==
    (request.route = "POST /create" /\ Passes(request.body)) =>
        LET record == UserRecord(Num(LastIssued), Validated(request.body).body)
        IN  /\ response = Redirect("/")
            /\ issued # <<>>
            /\ \A i \in 1 .. (Len(issued) - 1) : issued[i] < LastIssued
            /\ getUser(usersStorage, Num(LastIssued)) = << record >>
            /\ \E i \in DOMAIN getUsers(usersStorage) :
                   getUsers(usersStorage)[i] = record

\* A second create has succeeded after a record was deleted and another updated.
C1_Witness ==
    /\ request.route = "POST /create"
    /\ Passes(request.body)
    /\ Len(issued) = 2
    /\ deleted # {}
    /\ \E k \in DOMAIN storage : storage[k].id.type = "string"

\* What the claims say of a submitted name: the value without its surrounding
\* whitespace contains a digit, is empty, or has more than 10 characters.
HasDigit(v) == \E i \in DOMAIN trim(toString(v)) : trim(toString(v))[i] \in DigitChars
IsEmpty(v)  == trim(toString(v)) = <<>>
TooLong(v)  == Len(trim(toString(v))) > MaxNameLength
BadName(v)  == HasDigit(v) \/ IsEmpty(v) \/ TooLong(v)

Reports(msg) == \E i \in DOMAIN response.errors : response.errors[i] = msg

\* C2: a create or update submission whose firstName or lastName contains a
\* digit, is empty or is longer than 10 characters is answered with status 400
\* and the message of the rule it breaks, and leaves storage and the id
\* counter as they were.
C2_BadNameRejectedStoreUntouched ==
    [][ ( /\ request'.route \in PostRoutes
          /\ BadName(request'.body.firstName) \/ BadName(request'.body.lastName) )
        => /\ response'.status = 400
           /\ response'.kind = "render"
           /\ HasDigit(request'.body.firstName) => Reports(FirstNameAlphaErr)'
           /\ (IsEmpty(request'.body.firstName) \/ TooLong(request'.body.firstName))
                 => Reports(FirstNameLengthErr)'
           /\ HasDigit(request'.body.lastName) => Reports(LastNameAlphaErr)'
           /\ (IsEmpty(request'.body.lastName) \/ TooLong(request'.body.lastName))
                 => Reports(LastNameLengthErr)'
           /\ storage' = storage
           /\ id' = id
      ]_vars

\* An update with a too long last name was rejected while the store holds a record.
C2_Witness ==
    /\ request.route = "POST /:id/update"
    /\ TooLong(request.body.lastName)
    /\ response.status = 400
    /\ Reports(LastNameLengthErr)
    /\ ToPropertyKey(request.id) \in DOMAIN storage

\* C3: after an update submission that passes validation, getUser(id) is
\* exactly the id together with the validated new fields: a field the form
\* leaves out is undefined, whatever the record held before.
C3_UpdateReplacesWholeRecord ==
    (request.route = "POST /:id/update" /\ Passes(request.body)) =>
        getUser(usersStorage, request.id) =
            << UserRecord(request.id, Validated(request.body).body) >>

\* An update that leaves out the bio has replaced a record addUser created.
C3_Witness ==
    /\ request.route = "POST /:id/update"
    /\ Passes(request.body)
    /\ request.body.bio = Undefined
    /\ \E i \in DOMAIN issued : NumberToString(issued[i]) = ToPropertyKey(request.id)
    /\ deleted = {}
    /\ getUser(usersStorage, request.id)[1].bio = Undefined

\* C4: userDeletePost leaves getUser(id) undefined, answers with the redirect
\* whether or not the id was in the store, changes no record under another
\* key nor the id counter, leaves the store as it was when the id is not in
\* it, and a second deleteUser(id) changes nothing more.
C4_DeleteRemovesOnlyThatId ==
    [][ request'.route = "POST /:id/delete" =>
          LET key   == ToPropertyKey(request'.id)
              after == [ storage |-> storage', id |-> id' ]
          IN  /\ getUser(after, request'.id) = <<>>
              /\ response' = Redirect("/")
              /\ DOMAIN storage' = DOMAIN storage \ {key}
              /\ \A k \in DOMAIN storage' : storage'[k] = storage[k]
              /\ id' = id
              /\ key \notin DOMAIN storage => storage' = storage
              /\ deleteUser(after, request'.id) = after
      ]_vars

\* A record was deleted while another record stays in the store.
C4_Witness ==
    /\ request.route = "POST /:id/delete"
    /\ ToPropertyKey(request.id) \in deleted
    /\ getUser(usersStorage, request.id) = <<>>
    /\ DOMAIN storage # {}

\* C5: the ids of the records in the store are pairwise different, addUser
\* assigns ids in strictly increasing order, and a key a record was deleted
\* from never holds a live record again.
C5_IdsUniqueIncreasingNeverReused ==
    /\ \A k1, k2 \in DOMAIN storage :
          storage[k1].id = storage[k2].id => k1 = k2
    /\ \A i, j \in DOMAIN issued : i < j => issued[i] < issued[j]
    /\ deleted \cap DOMAIN storage = {}

\* C6: after a POST to /:id/delete, getUser of that id is undefined (the
\* record is removed; the claim adds that the answer is the redirect to the
\* list).
C6_DeleteRouteRemovesRecord ==
    request.route = "POST /:id/delete" =>
        getUser(usersStorage, request.id) = <<>>

\* The characters a and b are the same letter in either case, or equal.
SameLetter(a, b) ==
    \/ a = b
    \/ \E k \in DOMAIN UpperCase : {a, b} = { UpperCase[k], LowerCase[k] }

\* s contains q as a substring when the case of letters is ignored.
ContainsIgnoringCase(s, q) ==
    \E i \in 0 .. (Len(s) - Len(q)) :
        \A j \in 1 .. Len(q) : SameLetter(s[i + j], q[j])

\* The keys of the records the search for the query name has to return.
Matching(name) ==
    LET q == toLowerCase(trim(name.str))
    IN  { k \in DOMAIN storage :
            \/ ContainsIgnoringCase(storage[k].firstName.str, q)
            \/ ContainsIgnoringCase(storage[k].lastName.str, q) }

\* C7: a search with a name parameter returns, with status 200, exactly the
\* records whose first or last name contains the trimmed, lower-cased query
\* when case is ignored; when and only when there is none it answers 404 with
\* an empty list and the no-results message.
C7_SearchReturnsExactlyTheMatches ==
    (request.route = "GET /search" /\ request.name.type = "string") =>
        LET expected == Matching(request.name)
        IN  /\ response.kind = "render"
            /\ expected # {} =>
                  /\ response.status = 200
                  /\ Range(response.users) = { storage[k] : k \in expected }
                  /\ Len(response.users) = Cardinality(expected)
                  /\ response.message = ""
            /\ expected = {} =>
                  /\ response.status = 404
                  /\ response.users = <<>>
                  /\ response.message = "404 - No users found."

\* The query " AN " over a store holding Anna and Bob has returned Anna only.
C7_Witness ==
    /\ request.route = "GET /search"
    /\ request.name = Str(<< " ", "A", "N", " " >>)
    /\ response.status = 200
    /\ Len(response.users) = 1
    /\ response.users[1].firstName = Str(Anna)
    /\ \E k \in DOMAIN storage : storage[k].firstName = Str(Bob)

\* C8: an update submission for an id that is not in the store leaves the id
\* unknown: getUser(id) stays undefined and getUsers() holds no record of it.
C8_UpdateOfUnknownIdStaysUnknown ==
    [][ ( /\ request'.route = "POST /:id/update"
          /\ ToPropertyKey(request'.id) \notin DOMAIN storage )
        => LET after == [ storage |-> storage', id |-> id' ]
           IN  /\ getUser(after, request'.id) = <<>>
               /\ \A i \in DOMAIN getUsers(after) :
                     ToPropertyKey(getUsers(after)[i].id)
                         # ToPropertyKey(request'.id)
      ]_vars

\* C9: after a successful update submission for a record addUser created,
\* getUser of the path id finds the record and its id is still the integer
\* addUser assigned.
C9_IdStaysTheIntegerAssigned ==
    ( /\ request.route = "POST /:id/update"
      /\ Passes(request.body)
      /\ \E i \in DOMAIN issued :
             NumberToString(issued[i]) = ToPropertyKey(request.id) )
    => /\ getUser(usersStorage, request.id) # <<>>
       /\ \E i \in DOMAIN issued :
             getUser(usersStorage, request.id)[1].id = Num(issued[i])

\* t is s without its leading and trailing whitespace.
IsStripped(t, s) ==
    /\ \E a, b \in 0 .. Len(s) :
          /\ a + Len(t) + b = Len(s)
          /\ SubSeq(s, a + 1, a + Len(t)) = t
          /\ \A i \in 1 .. a : s[i] \in Whitespace
          /\ \A i \in (Len(s) - b + 1) .. Len(s) : s[i] \in Whitespace
    /\ t # <<>> => (t[1] \notin Whitespace /\ t[Len(t)] \notin Whitespace)

\* The stored field is the submitted string stripped (undefined if left out).
StoredStripped(stored, submitted) ==
    IF submitted = Undefined
    THEN stored = Undefined
    ELSE stored.type = "string" /\ IsStripped(stored.str, submitted.str)

\* C10: a create or update submission that passes validation stores every
\* string field as the submitted value without its leading and trailing
\* whitespace and touches no record under another key; a submission that
\* fails validation leaves the store as it was.
C10_StoredFieldsAreTrimmed ==
    [][ request'.route \in PostRoutes =>
          LET after == [ storage |-> storage', id |-> id' ]
              uid   == IF request'.route = "POST /create"
                       THEN Num(LastIssued') ELSE request'.id
              user  == getUser(after, uid)
              body  == request'.body
          IN  IF Passes(body)
              THEN /\ user # <<>>
                   /\ StoredStripped(user[1].firstName, body.firstName)
                   /\ StoredStripped(user[1].lastName, body.lastName)
                   /\ StoredStripped(user[1].email, body.email)
                   /\ StoredStripped(user[1].bio, body.bio)
                   /\ \A k \in DOMAIN storage \ { ToPropertyKey(uid) } :
                         k \in DOMAIN storage' /\ storage'[k] = storage[k]
              ELSE storage' = storage /\ id' = id
      ]_vars

\* The form with the first name "  Bob  " was created and "Bob" is stored.
C10_Witness ==
    /\ request.route = "POST /create"
    /\ request.body.firstName = Str(PaddedBob)
    /\ Passes(request.body)
    /\ getUser(usersStorage, Num(LastIssued)) # <<>>
    /\ getUser(usersStorage, Num(LastIssued))[1].firstName = Str(Bob)
    /\ getUser(usersStorage, Num(LastIssued))[1].bio =
           Str(<< "h", "i" >>)

\* What the rules of the validator say of a submitted form, field by field.
NotLettersOnly(v) ==
    \/ trim(toString(v)) = <<>>
    \/ \E i \in DOMAIN trim(toString(v)) : trim(toString(v))[i] \notin Letters
WrongLength(v) ==
    Len(trim(toString(v))) < MinNameLength \/ Len(trim(toString(v))) > MaxNameLength
NotAnEmail(v) == ~isEmail(trim(toString(v)))
AgeOutOfRange(v) ==
    /\ v # Undefined
    /\ LET digits == DigitPrefix(trim(toString(v)))
       IN  \/ digits = <<>>
           \/ DigitsToNumber(digits) < MinAge
           \/ DigitsToNumber(digits) > MaxAge
BioTooLong(v) == v # Undefined /\ Len(trim(toString(v))) > MaxBioLength

\* The messages of the rules the form breaks.
BrokenRules(body) ==
    { m \in { FirstNameAlphaErr, FirstNameLengthErr, LastNameAlphaErr,
              LastNameLengthErr, EmailErrMsg, AgeErrMsg, BioErrMsg } :
        \/ m = FirstNameAlphaErr /\ NotLettersOnly(body.firstName)
        \/ m = FirstNameLengthErr /\ WrongLength(body.firstName)
        \/ m = LastNameAlphaErr /\ NotLettersOnly(body.lastName)
        \/ m = LastNameLengthErr /\ WrongLength(body.lastName)
        \/ m = EmailErrMsg /\ NotAnEmail(body.email)
        \/ m = AgeErrMsg /\ AgeOutOfRange(body.age)
        \/ m = BioErrMsg /\ BioTooLong(body.bio) }

\* C11: the error list of a create or update submission holds the message of
\* every rule the form breaks, over all five fields and both rules of a name
\* field, each once, and no message of a rule the form satisfies; a form that
\* breaks a rule is answered with status 400.
C11_EveryBrokenRuleReported ==
    request.route \in PostRoutes =>
        /\ Range(response.errors) = BrokenRules(request.body)
        /\ Len(response.errors) = Cardinality(BrokenRules(request.body))
        /\ BrokenRules(request.body) # {} => response.status = 400

\* The form that is wrong in every field was answered with six messages,
\* both messages of its empty last name among them.
C11_Witness ==
    /\ request.route = "POST /create"
    /\ request.body = WrongEverywhere
    /\ Len(response.errors) = 6
    /\ Reports(LastNameAlphaErr)
    /\ Reports(LastNameLengthErr)

\* C12: whatever the interleaving, the store changes only in the handler
\* step of one validated request, which answers that request and writes the
\* whole record of that request; after an update submission the record under
\* its id is exactly the id and the complete validated field set of the
\* request that wrote last, whatever other updates of the id are in flight.
C12_WritesAreWholeAndLastWins ==
    [][ (storage' # storage \/ id' # id) =>
          \E p \in pending :
              /\ p.stage = "validated"
              /\ Passes(p.req.body)
              /\ pending' = pending \ {p}
              /\ request' = p.req
              /\ response' = Redirect("/")
              /\ p.req.route = "POST /:id/update" =>
                    /\ storage' = SetProperty(storage, ToPropertyKey(p.req.id),
                           UserRecord(p.req.id, Validated(p.req.body).body))
                    /\ id' = id
              /\ p.req.route = "POST /create" =>
                    /\ storage' = SetProperty(storage, NumberToString(id),
                           UserRecord(Num(id), Validated(p.req.body).body))
                    /\ id' = id + 1
      ]_vars

\* An update of id 0 has written while another validated update of id 0 with
\* another form is still in flight: the record is the writer's form, without
\* a bio.
C12_Witness ==
    /\ request.route = "POST /:id/update"
    /\ request.body = [PlainBody EXCEPT !.bio = Undefined]
    /\ response = Redirect("/")
    /\ getUser(usersStorage, request.id) =
           << UserRecord(request.id, Validated(request.body).body) >>
    /\ \E p \in pending :
          /\ p.req.route = "POST /:id/update"
          /\ p.req.id = request.id
          /\ p.req.body = [PlainBody EXCEPT !.firstName = Str(PaddedBob)]
          /\ p.stage = "validated"

\* C13: a create submission that passes validation leaves every record that
\* was in the store as it was and makes the store one record larger.
C13_CreateKeepsLiveRecords ==
    [][ (request'.route = "POST /create" /\ Passes(request'.body)) =>
          /\ \A k \in DOMAIN storage :
                k \in DOMAIN storage' /\ storage'[k] = storage[k]
          /\ Cardinality(DOMAIN storage') = Cardinality(DOMAIN storage) + 1
      ]_vars

\* A name as the rules want it stored: 1 to 10 letters, hence no whitespace.
WellFormedName(v) ==
    /\ v.type = "string"
    /\ Len(v.str) >= MinNameLength
    /\ Len(v.str) <= MaxNameLength
    /\ \A i \in DOMAIN v.str : v.str[i] \in Letters

WellFormedAge(v) ==
    v # Undefined => (v.type = "number" /\ v.num >= MinAge /\ v.num <= MaxAge)

WellFormedBio(v) ==
    v # Undefined => (v.type = "string" /\ Len(v.str) <= MaxBioLength)

\* C14: every record in the store has a first and a last name of 1 to 10
\* letters, an age that is undefined or an integer in [18,200] and a bio that
\* is undefined or at most 200 characters long; a search with a name
\* parameter is therefore never answered by the error of a missing name.
C14_StoredRecordsAreValid ==
    /\ \A k \in DOMAIN storage :
          /\ WellFormedName(storage[k].firstName)
          /\ WellFormedName(storage[k].lastName)
          /\ WellFormedAge(storage[k].age)
          /\ WellFormedBio(storage[k].bio)
    /\ (request.route = "GET /search" /\ request.name.type = "string")
          => response.kind = "render"

\* The store holds a record written by an update whose age was "25x" (stored
\* as 25) and a record without an age, and a search over them has answered.
C14_Witness ==
    /\ request.route = "GET /search"
    /\ response.status = 200
    /\ \E k \in DOMAIN storage :
          storage[k].id.type = "string" /\ storage[k].age = Num(25)
    /\ \E k \in DOMAIN storage : storage[k].age = Undefined
    /\ deleted # {}

====
